---- MODULE Spec2Model ----
(***************************************************************************)
(* A model of confgen.py, the DOSBox configuration generator of Boxtron:   *)
(*   - DosboxConfigParser.read      (the source reader)                    *)
(*   - DosboxConfiguration          (the layer merger and its accessors)   *)
(*   - to_linux_autoexec            (the autoexec rewriter)                *)
(*   - create_dosbox_configuration  (the command line front end)           *)
(*                                                                         *)
(* Text is modelled as a sequence of one-character strings, so that the    *)
(* regular expressions, str.lower, str.rstrip, os.path.split and           *)
(* str.format of the source are computed character by character.           *)
(***************************************************************************)
EXTENDS Integers, Sequences, FiniteSets, TLC

VARIABLES
    args,            \* argparse namespace: conf, c, file, noautoexec, exit
    tweak_conf,      \* the in-memory override layer (dict of dicts)
    default_conf,    \* whether ./dosbox.conf exists
    resolver,        \* behaviour of the external to_posix_path
    cue_broken,      \* whether cuescanner finds a .cue file in need of repair
    pc,              \* position in the program
    layer,           \* index of the next file layer to import
    sections,        \* DosboxConfiguration: the non-autoexec dict entries
    autoexec,        \* DosboxConfiguration['autoexec'] (= raw_autoexec)
    encoding,        \* DosboxConfiguration.encoding
    err,             \* the exception last raised, if any
    last_set,        \* arguments of the last DosboxConfiguration.set call
    txt,             \* DosboxConfigParser.read: the lines of the open file
    lineno,          \* DosboxConfigParser.read: lines consumed so far
    in_section,      \* DosboxConfigParser.read: local in_section
    autoexec_lines,  \* DosboxConfigParser.autoexec_lines
    user_autoexec    \* [autoexec] lines written by create_user_conf_file

vars == <<args, tweak_conf, default_conf, resolver, cue_broken, pc, layer,
          sections, autoexec, encoding, err, last_set, txt, lineno,
          in_section, autoexec_lines, user_autoexec>>

(***************************************************************************)
(* Bounds of the model.                                                    *)
(***************************************************************************)
MaxLayers == 2      \* at most this many -conf files
MaxLines == 2       \* at most this many autoexec lines given to the rewriter
MaxFileLen == 3     \* at most this many lines in a file given to the reader

(***************************************************************************)
(* Characters and Python's str methods.                                    *)
(***************************************************************************)
LowerAlpha == <<"a","b","c","d","e","f","g","h","i","j","k","l","m",
                "n","o","p","q","r","s","t","u","v","w","x","y","z">>
UpperAlpha == <<"A","B","C","D","E","F","G","H","I","J","K","L","M",
                "N","O","P","Q","R","S","T","U","V","W","X","Y","Z">>

IsLowerChar(c) == \E n \in DOMAIN LowerAlpha : LowerAlpha[n] = c
IsUpperChar(c) == \E n \in DOMAIN UpperAlpha : UpperAlpha[n] = c
IsAlpha(c) == IsLowerChar(c) \/ IsUpperChar(c)
IsSpaceChar(c) == c \in {" ", "\t", "\n"}

LowerChar(c) ==
    IF IsUpperChar(c)
    THEN LowerAlpha[CHOOSE n \in DOMAIN UpperAlpha : UpperAlpha[n] = c]
    ELSE c
UpperChar(c) ==
    IF IsLowerChar(c)
    THEN UpperAlpha[CHOOSE n \in DOMAIN LowerAlpha : LowerAlpha[n] = c]
    ELSE c

\* str.lower and str.upper
lower(s) == [n \in 1..Len(s) |-> LowerChar(s[n])]
upper(s) == [n \in 1..Len(s) |-> UpperChar(s[n])]

\* s[a-1:b] of Python: the characters a..b that exist
Slice(s, a, b) ==
    IF a > b \/ a > Len(s) THEN <<>>
    ELSE SubSeq(s, a, IF b > Len(s) THEN Len(s) ELSE b)

\* the character at position n, or "" past either end
At(s, n) == IF n \in 1..Len(s) THEN s[n] ELSE ""

startswith(s, p) == Slice(s, 1, Len(p)) = p
endswith(s, p) == Len(s) >= Len(p) /\ Slice(s, Len(s) - Len(p) + 1, Len(s)) = p

\* str.rstrip, str.lstrip and str.strip (whitespace)
rstrip(s) ==
    LET keep == {n \in 1..Len(s) : ~IsSpaceChar(s[n])}
    IN  IF keep = {} THEN <<>>
        ELSE SubSeq(s, 1, CHOOSE n \in keep : \A m \in keep : m <= n)
lstrip(s) ==
    LET keep == {n \in 1..Len(s) : ~IsSpaceChar(s[n])}
    IN  IF keep = {} THEN <<>>
        ELSE SubSeq(s, CHOOSE n \in keep : \A m \in keep : n <= m, Len(s))
strip(s) == lstrip(rstrip(s))

\* The first position at or after `from` holding character c, or Len(s)+1.
Find(s, c, from) ==
    LET hits == {n \in from..Len(s) : s[n] = c}
    IN  IF hits = {} THEN Len(s) + 1
        ELSE CHOOSE n \in hits : \A m \in hits : n <= m

\* The last position holding character c, or 0.
RFind(s, c) ==
    LET hits == {n \in 1..Len(s) : s[n] = c}
    IN  IF hits = {} THEN 0
        ELSE CHOOSE n \in hits : \A m \in hits : m <= n

\* All sequences over S of length lo..hi.
SeqsOf(S, lo, hi) == UNION {[1..n -> S] : n \in lo..hi}

\* the concatenation of the sequences of ss
RECURSIVE Concat(_)
Concat(ss) == IF ss = <<>> THEN <<>> ELSE Head(ss) \o Concat(Tail(ss))

(***************************************************************************)
(* External collaborators of the rewriter and of the merger.               *)
(***************************************************************************)
\* winpathlib.to_posix_path: the real path a Windows path names.  Either
\* every path is already right ("identity"), or the files on disk are all
\* lower-case ("lower"); backslashes become slashes.
to_posix_path(path) ==
    IF resolver = "identity" THEN path
    ELSE [n \in 1..Len(path) |->
             IF path[n] = "\\" THEN "/" ELSE LowerChar(path[n])]

\* cuescanner.is_cue_file
is_cue_file(path) == endswith(lower(path), <<".","c","u","e">>)

\* confgen.convert_cue_file
convert_cue_file(path) ==
    IF ~is_cue_file(path) THEN path
    ELSE IF ~cue_broken THEN path
    ELSE <<"b","o","x","t","r","o","n",".","c","u","e">>

(***************************************************************************)
(* to_linux_autoexec: the three regular expressions, matched with          *)
(* re.IGNORECASE from the start of the line (re.match).                    *)
(***************************************************************************)
\* ' *' and ' +': the position after the run of spaces starting at `from`
SkipSpaces(s, from) ==
    IF At(s, from) # " " THEN from
    ELSE CHOOSE n \in (from + 1)..(Len(s) + 1) :
             /\ \A m \in from..(n - 1) : s[m] = " "
             /\ At(s, n) # " "

\* '@? *': the position after an optional @ and any spaces
SkipAt(s) == SkipSpaces(s, IF At(s, 1) = "@" THEN 2 ELSE 1)

\* '(mount|imgmount)' at position n, ignoring case: the text matched
Keyword(s, n) ==
    IF lower(Slice(s, n, n + Len(<<"m","o","u","n","t">>) - 1)) = <<"m","o","u","n","t">>
    THEN Slice(s, n, n + Len(<<"m","o","u","n","t">>) - 1)
    ELSE IF lower(Slice(s, n, n + Len(<<"i","m","g","m","o","u","n","t">>) - 1)) = <<"i","m","g","m","o","u","n","t">>
    THEN Slice(s, n, n + Len(<<"i","m","g","m","o","u","n","t">>) - 1)
    ELSE <<>>

NoMatch == [ok |-> FALSE]

\* The common head of cmd_1 and cmd_2:
\*   @? *(mount|imgmount) +([a-z]):? +
\* `next` is the position after it.
MountHead(s) ==
    LET p2 == SkipAt(s)
        kw == Keyword(s, p2)
        p3 == p2 + Len(kw)
        p4 == SkipSpaces(s, p3)
        p5 == p4 + 1
        p6 == IF At(s, p5) = ":" THEN p5 + 1 ELSE p5
        p7 == SkipSpaces(s, p6)
    IN  IF kw # <<>> /\ p4 > p3 /\ IsAlpha(At(s, p4)) /\ p7 > p6
        THEN [ok |-> TRUE, group1 |-> kw, group2 |-> <<At(s, p4)>>, next |-> p7]
        ELSE NoMatch

\* cmd_1 = r'@? *(mount|imgmount) +([a-z]):? +"([^"]+)"( +(.*))?'
\* group4 is <<>> where Python gives None.
mount_cmd_1(s) ==
    LET h == MountHead(s) IN
    IF ~h.ok THEN NoMatch
    ELSE
    LET q == h.next
        close == Find(s, "\"", q + 1)
    IN  IF At(s, q) = "\"" /\ close <= Len(s) /\ close > q + 1
        THEN [ok |-> TRUE, group1 |-> h.group1, group2 |-> h.group2,
              group3 |-> Slice(s, q + 1, close - 1),
              group4 |-> IF At(s, close + 1) = " "
                         THEN Slice(s, close + 1, Len(s)) ELSE <<>>]
        ELSE NoMatch

\* cmd_2 = r'@? *(mount|imgmount) +([a-z]):? +([^ ]+)( +(.*))?'
mount_cmd_2(s) ==
    LET h == MountHead(s) IN
    IF ~h.ok THEN NoMatch
    ELSE
    LET q == h.next
        stop == Find(s, " ", q)
    IN  IF q <= Len(s)
        THEN [ok |-> TRUE, group1 |-> h.group1, group2 |-> h.group2,
              group3 |-> Slice(s, q, stop - 1),
              group4 |-> Slice(s, stop, Len(s))]
        ELSE NoMatch

\* change_drv = r'@? *([a-z]:)\\? *$'
change_drv(s) ==
    LET p2 == SkipAt(s)
        p3 == p2 + 2
        p4 == IF At(s, p3) = "\\" THEN p3 + 1 ELSE p3
    IN  IF IsAlpha(At(s, p2)) /\ At(s, p2 + 1) = ":"
           /\ SkipSpaces(s, p4) = Len(s) + 1
        THEN [ok |-> TRUE, group1 |-> Slice(s, p2, p2 + 1)]
        ELSE NoMatch

\* mount_cmd_1.match(line) or mount_cmd_2.match(line)
MountMatch(line) ==
    IF mount_cmd_1(line).ok THEN mount_cmd_1(line) ELSE mount_cmd_2(line)

\* '{0} {1} "{2}"{3}'.format(cmd, drive, path, rest)
FormatMount(cmd, drive, path, rest) ==
    cmd \o <<" ">> \o drive \o <<" ","\"">> \o path \o <<"\"">> \o rest

\* One iteration of the loop of to_linux_autoexec: the line it yields.
RewriteLineDropRaw(line) ==
    LET match == MountMatch(line) IN
    IF match.ok
    THEN LET cmd == lower(match.group1)
             drive == upper(match.group2)
             path == to_posix_path(match.group3)
         IN  <<FormatMount(cmd, drive,
                 IF cmd = <<"i","m","g","m","o","u","n","t">> THEN convert_cue_file(path) ELSE path,
                 match.group4)>>
    ELSE IF change_drv(line).ok
    THEN <<upper(change_drv(line).group1)>>
    ELSE <<>>

RewriteLine(line) ==
    LET match == MountMatch(line) IN
    IF match.ok
    THEN LET cmd == lower(match.group1)
             drive == upper(match.group2)
             path == to_posix_path(match.group3)
         IN  <<FormatMount(cmd, drive,
                 IF cmd = <<"i","m","g","m","o","u","n","t">> THEN convert_cue_file(path) ELSE path,
                 match.group4)>>
    ELSE IF change_drv(line).ok
    THEN <<upper(change_drv(line).group1)>>
    ELSE <<line>>

\* list(to_linux_autoexec(lines)): what each line yields, in order
to_linux_autoexec(lines) ==
    Concat([n \in 1..Len(lines) |-> RewriteLine(lines[n])])

(***************************************************************************)
(* Dictionaries: functions from keys to values.                            *)
(***************************************************************************)
EmptyDict == [k \in {} |-> k]
Put(d, k, v) == [x \in DOMAIN d \cup {k} |-> IF x = k THEN v ELSE d[x]]
\* dict(a, **b): the entries of a, overwritten by those of b
Update(a, b) ==
    [x \in DOMAIN a \cup DOMAIN b |-> IF x \in DOMAIN b THEN b[x] ELSE a[x]]

\* Python's None where a text is expected
None == <<"None">>

(***************************************************************************)
(* DosboxConfigParser: the first pass, ConfigParser.read, as configured    *)
(* by __init__ (allow_no_value, '=' the only delimiter, not strict, no     *)
(* interpolation, optionxform = str).  A line is a text without its        *)
(* newline.                                                                *)
(***************************************************************************)
DEFAULTSECT == <<"D","E","F","A","U","L","T">>

\* self.optionxform of a parser: str for DosboxConfigParser, str.lower for a
\* plain ConfigParser
optionxform(xform, option) == IF xform = "lower" THEN lower(option) ELSE option

IsComment(line) ==
    startswith(strip(line), <<"#">>) \/ startswith(strip(line), <<";">>)

\* first_nonspace.start(): the number of leading whitespace characters
IndentOf(line) == Len(line) - Len(lstrip(line))

\* SECTCRE = \[(?P<header>.+)\] matched at the start of value
IsHeader(value) == At(value, 1) = "[" /\ RFind(value, "]") >= 3
HeaderName(value) == Slice(value, 2, RFind(value, "]") - 1)

\* _optcre for allow_no_value: option, and the value after the first '='
OptName(value) == rstrip(Slice(value, 1, Find(value, "=", 1) - 1))
OptValue(value) ==
    IF Find(value, "=", 1) > Len(value) THEN None
    ELSE strip(Slice(value, Find(value, "=", 1) + 1, Len(value)))

ParserInit ==
    [sects |-> EmptyDict, cursect |-> None, optname |-> None,
     indent |-> 0, error |-> "none", deferred |-> FALSE]

\* One iteration of the loop of RawConfigParser._read.  `error` is an
\* exception raised at once; `deferred` is the ParsingError kept in e and
\* raised after the last line.
ParserStep(st, line) ==
    LET value == IF IsComment(line) THEN <<>> ELSE strip(line)
        cur == st.sects[st.cursect]
    IN
    IF st.error # "none" THEN st
    ELSE IF value = <<>> THEN
        \* an empty line is added to a running value, a comment is not
        IF ~IsComment(line) /\ st.cursect # None /\ st.optname # None
           /\ st.optname # <<>> /\ cur[st.optname] # None
        THEN [st EXCEPT !.sects[st.cursect][st.optname] = @ \o <<"\n">>]
        ELSE st
    ELSE IF st.cursect # None /\ st.optname # None /\ st.optname # <<>>
            /\ IndentOf(line) > st.indent THEN
        \* a continuation line; None has no append
        IF cur[st.optname] = None
        THEN [st EXCEPT !.error = "AttributeError"]
        ELSE [st EXCEPT !.sects[st.cursect][st.optname] = @ \o <<"\n">> \o value]
    ELSE IF IsHeader(value) THEN
        [st EXCEPT !.indent = IndentOf(line),
                   !.sects = IF HeaderName(value) \in DOMAIN st.sects THEN @
                             ELSE Put(@, HeaderName(value), EmptyDict),
                   !.cursect = HeaderName(value),
                   !.optname = None]
    ELSE IF st.cursect = None THEN
        [st EXCEPT !.error = "MissingSectionHeaderError"]
    ELSE
        [st EXCEPT !.indent = IndentOf(line),
                   !.sects[st.cursect] = Put(@, OptName(value), OptValue(value)),
                   !.optname = OptName(value),
                   !.deferred = @ \/ OptName(value) = <<>>]

RECURSIVE ParserRun(_, _)
ParserRun(st, lines) ==
    IF lines = <<>> THEN st ELSE ParserRun(ParserStep(st, Head(lines)), Tail(lines))

\* _join_multiline_values: '\n'.join(val).rstrip()
JoinValue(val) == IF val = None THEN None ELSE rstrip(val)

\* ConfigParser.read on the lines of a file: the error raised, if any, and
\* each section as its proxy shows it, the defaults included.
ConfigParserRead(lines) ==
    LET st == ParserRun(ParserInit, lines)
        joined == [s \in DOMAIN st.sects |->
                     [k \in DOMAIN st.sects[s] |-> JoinValue(st.sects[s][k])]]
        defaults == IF DEFAULTSECT \in DOMAIN joined
                    THEN joined[DEFAULTSECT] ELSE EmptyDict
    IN  [error |-> IF st.error = "none" /\ st.deferred
                   THEN "ParsingError" ELSE st.error,
         sects |-> [s \in DOMAIN joined \ {DEFAULTSECT} |->
                      Update(defaults, joined[s])]]

(***************************************************************************)
(* DosboxConfigParser.read: the second pass, which collects the autoexec   *)
(* lines.                                                                  *)
(***************************************************************************)
\* One iteration of `for line in txt`: the locals after it.
ScanLine(rd, line) ==
    IF rd.in_section
    THEN [rd EXCEPT !.autoexec_lines = Append(@, rstrip(line))]
    ELSE IF startswith(strip(line), <<"[","a","u","t","o","e","x","e","c","]">>)
    THEN [rd EXCEPT !.in_section = TRUE]
    ELSE rd

RECURSIVE ScanLines(_, _)
ScanLines(rd, lines) ==
    IF lines = <<>> THEN rd ELSE ScanLines(ScanLine(rd, Head(lines)), Tail(lines))

\* DosboxConfigParser.get_autoexec after read
get_autoexec(lines) ==
    ScanLines([in_section |-> FALSE, autoexec_lines |-> <<>>], lines).autoexec_lines

(***************************************************************************)
(* The files on disk.                                                      *)
(***************************************************************************)
FileA ==
    [enc |-> "utf-8",
     lines |-> << <<"[","c","p","u","]">>, <<"C","o","r","e","=","a">>, <<"c","y","c","l","e","s"," ","="," ","1">>, <<"[","a","u","t","o","e","x","e","c","]">>, <<"@","e","c","h","o"," ","o","f","f">> >>]
FileB ==
    [enc |-> "cp1250",
     lines |-> << <<"[","c","p","u","]">>, <<"C","o","r","e","=","d">>, <<"[","a","u","t","o","e","x","e","c","]">>, <<" "," ","m","o","u","n","t"," ","c"," ","\"","G","\""," "," ">>,
                  <<"[","m","i","x","e","r","]">>, <<"r","a","t","e","=","2">> >>]
FileC ==
    [enc |-> "utf-8",
     lines |-> << <<"#"," ","n","o"," ","a","u","t","o","e","x","e","c">>, <<"[","m","i","x","e","r","]">>, <<"r","a","t","e","=","9">>, <<>>, <<"[","c","p","u","]">>, <<"c","o","r","e","=","x">> >>]
FileBad ==
    [enc |-> "utf-8", lines |-> << <<"c","o","r","e","=","a">>, <<"[","a","u","t","o","e","x","e","c","]">>, <<"d","i","r">> >>]
FileDefault ==
    [enc |-> "utf-8", lines |-> << <<"[","r","e","n","d","e","r","]">>, <<"a","s","p","e","c","t","=","t">>, <<"[","a","u","t","o","e","x","e","c","]">>, <<"v","e","r">> >>]

ConfNames == { <<"a",".","c","o","n","f">>, <<"b",".","c","o","n","f">>, <<"c",".","c","o","n","f">>, <<"b","a","d",".","c","o","n","f">> }
DefaultName == <<"d","o","s","b","o","x",".","c","o","n","f">>

FileSystem(path) ==
    IF path = <<"a",".","c","o","n","f">> THEN FileA
    ELSE IF path = <<"b",".","c","o","n","f">> THEN FileB
    ELSE IF path = <<"c",".","c","o","n","f">> THEN FileC
    ELSE IF path = DefaultName THEN FileDefault
    ELSE FileBad

\* parse_dosbox_config: the parser after read, and the encoding that worked.
\* A file that is not utf-8 is read again as cp1250, with the same result.
DosboxConfigParserRead(f) ==
    LET first == ConfigParserRead(f.lines)
    IN  [error |-> first.error,
         sects |-> first.sects,
         xform |-> "str",
         autoexec_lines |-> get_autoexec(f.lines),
         enc |-> f.enc]

ParsedFiles ==
    [path \in ConfNames \cup {DefaultName} |-> DosboxConfigParserRead(FileSystem(path))]

parse_dosbox_config(conf_file) == ParsedFiles[conf_file]

(***************************************************************************)
(* parse_dosbox_arguments and create_dosbox_configuration.                 *)
(***************************************************************************)
\* Python's truth value of a str or None, and of a list
Truthy(x) == x # None /\ x # <<>>
NonEmpty(list) == Len(list) > 0

\* cmds = list(filter(lambda x: x, args.c or [])); args.c = cmds
\* (an absent -conf or -c list, None in Python, is <<>> here)
parse_dosbox_arguments_nofilter(a) == a

parse_dosbox_arguments(a) == [a EXCEPT !.c = SelectSeq(a.c, Truthy)]

\* the keyword arguments create_dosbox_configuration gives the constructor
commands == parse_dosbox_arguments(args).c
conf_files == parse_dosbox_arguments(args).conf
exe == parse_dosbox_arguments(args).file
noautoexec == parse_dosbox_arguments(args).noautoexec
exit_after_exe == parse_dosbox_arguments(args).exit

(***************************************************************************)
(* DosboxConfiguration.                                                    *)
(***************************************************************************)
AUTOEXEC == <<"a","u","t","o","e","x","e","c">>

\* DosboxConfiguration.__get_default_conf__
get_default_conf ==
    IF Truthy(to_posix_path(<<"d","o","s","b","o","x",".","c","o","n","f">>)) /\ default_conf
    THEN <<to_posix_path(<<"d","o","s","b","o","x",".","c","o","n","f">>)>> ELSE <<>>

\* conf_files or self.__get_default_conf__()
Layers == IF NonEmpty(conf_files) THEN conf_files ELSE get_default_conf

\* DosboxConfiguration.has_section / sections: the keys of the dict
Keys(secs) == DOMAIN secs \cup {AUTOEXEC}
has_section(secs, section) == section \in Keys(secs)

\* self[section][option] = value, through the section's proxy, which
\* applies the optionxform of the parser it belongs to
SetItem(sec, option, value) ==
    [sec EXCEPT !.opts = Put(@, optionxform(sec.xform, option), value)]

\* proxy[option]: the value, or None when the option is absent
GetItem(sec, option) ==
    IF optionxform(sec.xform, option) \in DOMAIN sec.opts
    THEN sec.opts[optionxform(sec.xform, option)] ELSE None

\* for opt, val in config[name].items(): self.set(name, opt, val)
\* (two options of config meet in one key only under a folding xform)
SetAllKeepFirst(sec, items) ==
    LET keys == {optionxform(sec.xform, k) : k \in DOMAIN items}
        from(x) == CHOOSE k \in DOMAIN items : optionxform(sec.xform, k) = x
    IN  [sec EXCEPT !.opts =
            [x \in DOMAIN sec.opts \cup keys |->
                IF x \in DOMAIN sec.opts THEN sec.opts[x] ELSE items[from(x)]]]

SetAll(sec, items) ==
    LET keys == {optionxform(sec.xform, k) : k \in DOMAIN items}
        from(x) == CHOOSE k \in DOMAIN items : optionxform(sec.xform, k) = x
    IN  [sec EXCEPT !.opts =
            [x \in DOMAIN sec.opts \cup keys |->
                IF x \in keys THEN items[from(x)] ELSE sec.opts[x]]]

\* DosboxConfiguration.__import_ini_sections__: a section seen for the first
\* time is the proxy of config itself, a known one is set option by option.
import_ini_sections(secs, config) ==
    LET names == DOMAIN config.sects \ {AUTOEXEC} IN
    [name \in DOMAIN secs \cup names |->
        IF name \notin names THEN secs[name]
        ELSE IF ~has_section(secs, name)
        THEN [opts |-> config.sects[name], xform |-> config.xform]
        ELSE SetAll(secs[name], config.sects[name])]

\* if not noautoexec and conf.has_section('autoexec'): conf.get_autoexec()
LayerAutoexecIgnoreFlag(conf, flag) ==
    IF AUTOEXEC \in DOMAIN conf.sects THEN conf.autoexec_lines ELSE <<>>

LayerAutoexec(conf, flag) ==
    IF ~flag /\ AUTOEXEC \in DOMAIN conf.sects THEN conf.autoexec_lines ELSE <<>>

\* tweak = configparser.ConfigParser(); tweak.read_dict(tweak_conf)
\* A plain ConfigParser is strict and folds option names to lower case.
read_dict(dictionary) ==
    LET folded(s) == {lower(k) : k \in DOMAIN dictionary[s]}
        from(s, x) == CHOOSE k \in DOMAIN dictionary[s] : lower(k) = x
    IN  [error |-> IF \E s \in DOMAIN dictionary :
                        Cardinality(folded(s)) # Cardinality(DOMAIN dictionary[s])
                   THEN "DuplicateOptionError" ELSE "none",
         sects |-> [s \in DOMAIN dictionary |->
                      [x \in folded(s) |-> dictionary[s][from(s, x)]]],
         xform |-> "lower",
         autoexec_lines |-> <<>>,
         enc |-> "utf-8"]

\* os.path.split of a POSIX path
os_path_split(p) ==
    LET n == RFind(p, "/")
        head == Slice(p, 1, n)
        tail == Slice(p, n + 1, Len(p))
        cut == {m \in 1..Len(head) : head[m] # "/"}
    IN  [head |-> IF cut = {} THEN head
                  ELSE SubSeq(head, 1, CHOOSE m \in cut : \A k \in cut : k <= m),
         tail |-> tail]

\* the lines the constructor appends for a launch target (`if exe:` taken)
LaunchLinesCaseSensitive(target, exit_flag) ==
    LET split == os_path_split(to_posix_path(target))
        path == split.head
        file == split.tail
    IN  << <<"m","o","u","n","t"," ","C"," ">> \o (IF Truthy(path) THEN path ELSE <<".">>), <<"C",":">> >>
        \o (IF endswith(file, <<".","b","a","t">>) THEN << <<"c","a","l","l"," ">> \o file >> ELSE << file >>)
        \o (IF exit_flag THEN << <<"e","x","i","t">> >> ELSE <<>>)

LaunchLines(target, exit_flag) ==
    LET split == os_path_split(to_posix_path(target))
        path == split.head
        file == split.tail
    IN  << <<"m","o","u","n","t"," ","C"," ">> \o (IF Truthy(path) THEN path ELSE <<".">>), <<"C",":">> >>
        \o (IF endswith(lower(file), <<".","b","a","t">>)
            THEN << <<"c","a","l","l"," ">> \o file >> ELSE << file >>)
        \o (IF exit_flag THEN << <<"e","x","i","t">> >> ELSE <<>>)

\* `raise C` with a class instantiates C with no arguments; the constructor
\* of configparser.NoSectionError requires `section`, so the instantiation
\* itself raises TypeError.
RequiredArgs(cls) == IF cls = "NoSectionError" THEN {"section"} ELSE {}
Raise(cls) == IF RequiredArgs(cls) # {} THEN "TypeError" ELSE cls

NoCall == <<>>

(***************************************************************************)
(* The inputs.                                                             *)
(***************************************************************************)
\* the values of -c: None is a -c without a value, <<" ">> a value of one space
CLists ==
    { <<>>, <<None>>, << <<>> >>, << <<" ">> >>, << <<"d","i","r">> >>,
      << <<>>, <<"d","i","r">>, None, <<"v","e","r">> >> }
Targets == {None, <<>>, <<"G","/","r","u","n",".","B","A","T">>, <<"g","o",".","e","x","e">>}
Tweaks ==
    { EmptyDict,
      (<<"c","p","u">> :> (<<"C","o","r","e">> :> <<"T">>)),
      (<<"c","p","u">> :> (<<"c","y","c","l","e","s">> :> <<"9">>)) @@ (<<"n","e","w">> :> (<<"K","e","y">> :> <<"v">>))
          @@ (AUTOEXEC :> (<<"x">> :> <<"y">>)) }

ArgSpace ==
    [conf : SeqsOf(ConfNames, 0, MaxLayers),
     c : CLists,
     file : Targets,
     noautoexec : BOOLEAN,
     exit : BOOLEAN]

SetSections == { <<"c","p","u">>, <<"n","e","w">>, <<"n","o","s","u","c","h">>, AUTOEXEC }
SetOptions == { <<"C","o","r","e">> }
SetValues == { <<"v">> }

(***************************************************************************)
(* The actions: create_dosbox_configuration, the constructor statement by  *)
(* statement, and DosboxConfiguration.set on the finished object.          *)
(***************************************************************************)
Init ==
    /\ args \in ArgSpace
    /\ tweak_conf \in Tweaks
    \* dosbox.conf is looked for only without -conf, and the paths that
    \* to_posix_path may change are those of the launch target
    /\ default_conf \in IF NonEmpty(args.conf) THEN {FALSE} ELSE BOOLEAN
    /\ resolver \in IF Truthy(args.file) THEN {"identity", "lower"}
                     ELSE {"identity"}
    /\ cue_broken = FALSE
    /\ pc = "start"
    /\ layer = 0
    /\ sections = EmptyDict
    /\ autoexec = <<>>
    /\ encoding = "utf-8"
    /\ err = "none"
    /\ last_set = NoCall
    /\ txt = <<>>
    /\ lineno = 0
    /\ in_section = FALSE
    /\ autoexec_lines = <<>>
    /\ user_autoexec = <<>>

readerVars == <<txt, lineno, in_section, autoexec_lines>>
inputVars == <<args, tweak_conf, default_conf, resolver, cue_broken>>

\* create_dosbox_configuration up to the constructor call
CreateDosboxConfiguration ==
    /\ pc = "start"
    /\ pc' = IF ~(NonEmpty(conf_files) \/ NonEmpty(commands) \/ Truthy(exe))
             THEN "returned_none" ELSE "construct"
    /\ UNCHANGED <<inputVars, readerVars, layer, sections, autoexec, encoding,
                   err, last_set, user_autoexec>>

\* __init__: the assertion and the empty configuration
Construct ==
    /\ pc = "construct"
    /\ IF ~(NonEmpty(commands) \/ NonEmpty(conf_files) \/ Truthy(exe))
       THEN /\ pc' = "raised"
            /\ err' = "AssertionError"
            /\ UNCHANGED <<sections, autoexec, encoding, layer>>
       ELSE /\ pc' = "layers"
            /\ sections' = EmptyDict
            /\ autoexec' = <<>>
            /\ encoding' = "utf-8"
            /\ layer' = 1
            /\ UNCHANGED err
    /\ UNCHANGED <<inputVars, readerVars, last_set, user_autoexec>>

\* __init__: one iteration of the loop over the file layers
ImportLayer ==
    /\ pc = "layers"
    /\ layer <= Len(Layers)
    /\ LET conf == parse_dosbox_config(to_posix_path(Layers[layer])) IN
       IF conf.error # "none"
       THEN /\ pc' = "raised"
            /\ err' = conf.error
            /\ UNCHANGED <<sections, autoexec, encoding, layer>>
       ELSE /\ sections' = import_ini_sections(sections, conf)
            /\ encoding' = IF conf.enc # "utf-8" THEN conf.enc ELSE encoding
            /\ autoexec' = autoexec \o LayerAutoexec(conf, noautoexec)
            /\ layer' = layer + 1
            /\ UNCHANGED <<pc, err>>
    /\ UNCHANGED <<inputVars, readerVars, last_set, user_autoexec>>

\* __init__: self.raw_autoexec.extend(cmd for cmd in commands)
ExtendCommands ==
    /\ pc = "layers"
    /\ layer > Len(Layers)
    /\ autoexec' = autoexec \o commands
    /\ pc' = "tweak"
    /\ UNCHANGED <<inputVars, readerVars, layer, sections, encoding, err,
                   last_set, user_autoexec>>

\* __init__: the tweak layer
ImportTweak ==
    /\ pc = "tweak"
    /\ LET tweak == read_dict(tweak_conf) IN
       IF tweak.error # "none"
       THEN /\ pc' = "raised"
            /\ err' = tweak.error
            /\ UNCHANGED sections
       ELSE /\ sections' = import_ini_sections(sections, tweak)
            /\ pc' = "exe"
            /\ UNCHANGED err
    /\ UNCHANGED <<inputVars, readerVars, layer, autoexec, encoding, last_set,
                   user_autoexec>>

\* __init__: the launch target
AppendLaunch ==
    /\ pc = "exe"
    /\ autoexec' = IF Truthy(exe)
                   THEN autoexec \o LaunchLines(exe, exit_after_exe)
                   ELSE autoexec
    /\ pc' = "done"
    /\ UNCHANGED <<inputVars, readerVars, layer, sections, encoding, err,
                   last_set, user_autoexec>>

\* DosboxConfiguration.set, called on the finished configuration
Set(section, option, value) ==
    /\ pc = "done"
    /\ last_set = NoCall
    /\ last_set' = <<section, option, value>>
    /\ IF ~has_section(sections, section)
       THEN err' = Raise("NoSectionError") /\ UNCHANGED sections
       ELSE IF section = AUTOEXEC
       THEN \* a list takes no str index
            err' = "TypeError" /\ UNCHANGED sections
       ELSE /\ sections' = [sections EXCEPT
                               ![section] = SetItem(@, option, value)]
            /\ err' = "none"
    /\ UNCHANGED <<inputVars, readerVars, pc, layer, autoexec, encoding,
                   user_autoexec>>

Next ==
    \/ CreateDosboxConfiguration
    \/ Construct
    \/ ImportLayer
    \/ ExtendCommands
    \/ ImportTweak
    \/ AppendLaunch
    \/ \E s \in SetSections, o \in SetOptions, v \in SetValues : Set(s, o, v)

Spec == Init /\ [][Next]_vars

(***************************************************************************)
(* DosboxConfigParser.read on one file, line by line.                      *)
(***************************************************************************)
ReadLines ==
    { <<"[","a","u","t","o","e","x","e","c","]">>, <<"[","c","p","u","]">>, <<"c","o","r","e","=","a">>, <<"v","e","r">>, <<" ","d","i","r"," "," ">>, <<"#"," ","c">> }

NoArgs ==
    [conf |-> <<>>, c |-> <<>>, file |-> None,
     noautoexec |-> FALSE, exit |-> FALSE]

InitRead ==
    /\ txt \in SeqsOf(ReadLines, 0, MaxFileLen)
    /\ pc = "open"
    /\ lineno = 0
    /\ in_section = FALSE
    /\ autoexec_lines = <<>>
    /\ err = "none"
    /\ args = NoArgs
    /\ tweak_conf = EmptyDict
    /\ default_conf = FALSE
    /\ resolver = "identity"
    /\ cue_broken = FALSE
    /\ layer = 0
    /\ sections = EmptyDict
    /\ autoexec = <<>>
    /\ encoding = "utf-8"
    /\ last_set = NoCall
    /\ user_autoexec = <<>>

configVars == <<layer, sections, autoexec, encoding, last_set, user_autoexec>>

\* read: the first pass, super().read(filenames, encoding), and the opening
\* of the file for the second
FirstPass ==
    /\ pc = "open"
    /\ IF ConfigParserRead(txt).error # "none"
       THEN pc' = "raised" /\ err' = ConfigParserRead(txt).error
       ELSE pc' = "scan" /\ UNCHANGED err
    /\ UNCHANGED <<inputVars, configVars, txt, lineno, in_section,
                   autoexec_lines>>

\* read: one iteration of `for line in txt`
ScanNext ==
    /\ pc = "scan"
    /\ lineno < Len(txt)
    /\ LET rd == ScanLine([in_section |-> in_section,
                           autoexec_lines |-> autoexec_lines],
                          txt[lineno + 1])
       IN  /\ in_section' = rd.in_section
           /\ autoexec_lines' = rd.autoexec_lines
    /\ lineno' = lineno + 1
    /\ UNCHANGED <<inputVars, configVars, txt, pc, err>>

\* read: the end of the file
EndOfFile ==
    /\ pc = "scan"
    /\ lineno = Len(txt)
    /\ pc' = "read"
    /\ UNCHANGED <<inputVars, configVars, txt, lineno, in_section,
                   autoexec_lines, err>>

NextRead == FirstPass \/ ScanNext \/ EndOfFile

SpecRead == InitRead /\ [][NextRead]_vars

(***************************************************************************)
(* create_user_conf_file on a configuration built from -c commands alone:  *)
(* its autoexec is the commands.                                           *)
(***************************************************************************)
MountHeads == { <<"m","o","u","n","t"," ","c"," ">>, <<"@","I","M","G","M","O","U","N","T"," "," ","D",":"," ">> }
MountPaths == { <<"x">>, <<"\"","A"," ","b","\"">>, <<"\"","a">>, <<"a","\"","b">>, <<"X",".","C","U","E">> }
MountTrails == { <<>>, <<" ","-","t">>, <<"b">> }
MountLines ==
    { h \o p \o t : h \in MountHeads, p \in MountPaths, t \in MountTrails }
OtherLines == { <<"c",":">>, <<"@","D",":","\\"," ">>, <<"d","i","r">>, <<"m","o","u","n","t","x"," ","c"," ","y">> }
LineSet == MountLines \cup OtherLines

InitRewrite ==
    /\ args \in [conf : {<<>>}, c : SeqsOf(LineSet, 1, MaxLines),
                 file : {None}, noautoexec : {FALSE}, exit : {FALSE}]
    /\ tweak_conf = EmptyDict
    /\ default_conf = FALSE
    /\ resolver \in {"identity", "lower"}
    /\ cue_broken \in BOOLEAN
    /\ pc = "done"
    /\ layer = 1
    /\ sections = EmptyDict
    /\ autoexec = commands
    /\ encoding = "utf-8"
    /\ err = "none"
    /\ last_set = NoCall
    /\ txt = <<>>
    /\ lineno = 0
    /\ in_section = FALSE
    /\ autoexec_lines = <<>>
    /\ user_autoexec = <<>>

\* create_user_conf_file: the lines written under [autoexec]
CreateUserConfFile ==
    /\ pc = "done"
    /\ user_autoexec' = to_linux_autoexec(autoexec)
    /\ pc' = "written"
    /\ UNCHANGED <<inputVars, readerVars, layer, sections, autoexec, encoding,
                   err, last_set>>

NextRewrite == CreateUserConfFile

SpecRewrite == InitRewrite /\ [][NextRewrite]_vars

(***************************************************************************)
(* Properties.                                                             *)
(***************************************************************************)
\* the file layers merged so far
Merged ==
    IF pc = "layers" THEN layer - 1
    ELSE IF pc \in {"tweak", "exe", "done"} THEN Len(Layers)
    ELSE 0

\* the sections of the n-th file layer, as its parser holds them
LayerSects(n) == parse_dosbox_config(to_posix_path(Layers[n])).sects

\* the layers among the first n that define option k of section s
Defining(s, k, n) ==
    {m \in 1..n : s \in DOMAIN LayerSects(m) /\ k \in DOMAIN LayerSects(m)[s]}

Last(S) == CHOOSE m \in S : \A x \in S : x <= m

\* whether the tweak layer has been merged, and nothing set since
TweakMerged == pc \in {"exe", "done"} /\ last_set = NoCall

\* whether the tweak layer supplies option k of section s, as read_dict
\* holds it
TweakDefines(s, k) ==
    /\ s \in DOMAIN read_dict(tweak_conf).sects
    /\ k \in DOMAIN read_dict(tweak_conf).sects[s]

\* C1: while the file layers are merged, and after the tweak layer for the
\* options it does not supply, every option of a non-autoexec section that
\* a merged file layer defines has the value of the last merged layer that
\* defines it, and the configuration holds no option that no layer defines.
C1_LastWriterWins ==
    (pc \in {"layers", "tweak"} \/ TweakMerged) =>
        /\ \A m \in 1..Merged :
             \A s \in DOMAIN LayerSects(m) \ {AUTOEXEC} :
               \A k \in DOMAIN LayerSects(m)[s] :
                 (TweakMerged /\ TweakDefines(s, k))
                 \/ /\ s \in DOMAIN sections
                    /\ k \in DOMAIN sections[s].opts
                    /\ sections[s].opts[k]
                         = LayerSects(Last(Defining(s, k, Merged)))[s][k]
        /\ \A s \in DOMAIN sections :
             \A k \in DOMAIN sections[s].opts :
               \/ Defining(s, k, Merged) # {}
               \/ TweakMerged /\ TweakDefines(s, k)
        /\ AUTOEXEC \notin DOMAIN sections

\* C1 witness: b.conf merged over a.conf: Core is overwritten, cycles stays,
\* and mixer, defined by b.conf alone, is added.
C1_Witness ==
    /\ pc = "done"
    /\ last_set = NoCall
    /\ Layers = << <<"a",".","c","o","n","f">>, <<"b",".","c","o","n","f">> >>
    /\ tweak_conf = EmptyDict
    /\ sections[<<"c","p","u">>].opts = (<<"C","o","r","e">> :> <<"d">>) @@ (<<"c","y","c","l","e","s">> :> <<"1">>)
    /\ sections[<<"m","i","x","e","r">>].opts = (<<"r","a","t","e">> :> <<"2">>)

\* the autoexec lines the reader captured from the n-th file layer
LayerLines(n) ==
    IF args.noautoexec THEN <<>>
    ELSE parse_dosbox_config(to_posix_path(Layers[n])).autoexec_lines

\* the non-blank -c values, in the order given
Injected == SelectSeq(args.c, LAMBDA x : x # None /\ x # <<>>)

\* the lines of the first n file layers
UpTo(n) == Concat([m \in 1..n |-> LayerLines(m)])

IsPrefix(s, t) == Len(s) <= Len(t) /\ SubSeq(t, 1, Len(s)) = s

\* C2: at every step of the construction autoexec is the lines of the file
\* layers merged so far (none under noautoexec), then, once appended, the
\* injected commands, then, once appended, the launch lines; its length is
\* the sum of the parts; and what autoexec was after each earlier step is a
\* prefix of what it is now.
C2_AutoexecConcat ==
    /\ pc = "layers" =>
         /\ autoexec = UpTo(layer - 1)
         /\ \A m \in 0..(layer - 1) : IsPrefix(UpTo(m), autoexec)
    /\ pc \in {"tweak", "exe"} =>
         /\ autoexec = UpTo(Len(Layers)) \o Injected
         /\ \A m \in 0..Len(Layers) : IsPrefix(UpTo(m), autoexec)
    /\ pc = "done" =>
         /\ autoexec = UpTo(Len(Layers)) \o Injected
                \o (IF Truthy(args.file)
                    THEN LaunchLines(args.file, args.exit) ELSE <<>>)
         /\ Len(autoexec) = Len(UpTo(Len(Layers))) + Len(Injected)
                + (IF Truthy(args.file)
                   THEN Len(LaunchLines(args.file, args.exit)) ELSE 0)
         /\ \A m \in 0..Len(Layers) : IsPrefix(UpTo(m), autoexec)
         /\ IsPrefix(UpTo(Len(Layers)) \o Injected, autoexec)

\* C2 witness: two layers with autoexec lines, two commands and a target.
C2_Witness ==
    /\ pc = "done"
    /\ Layers = << <<"b",".","c","o","n","f">>, <<"a",".","c","o","n","f">> >>
    /\ ~args.noautoexec
    /\ Len(Injected) = 2
    /\ Truthy(args.file)
    /\ SubSeq(autoexec, 1, 6)
         = << <<" "," ","m","o","u","n","t"," ","c"," ","\"","G","\"">>, <<"[","m","i","x","e","r","]">>, <<"r","a","t","e","=","2">>, <<"@","e","c","h","o"," ","o","f","f">>, <<"d","i","r">>, <<"v","e","r">> >>

\* C3: once the tweak layer is merged, every option it supplies in a
\* non-autoexec section reads, under the key as written in tweak_conf, as
\* the tweak value; and merging it leaves autoexec alone.
C3_TweakWins ==
    TweakMerged =>
        \A s \in DOMAIN tweak_conf \ {AUTOEXEC} :
          \A k \in DOMAIN tweak_conf[s] :
            /\ s \in DOMAIN sections
            /\ GetItem(sections[s], k) = tweak_conf[s][k]

\* the launch lines as the claim words them
ClaimedLaunch ==
    LET p == to_posix_path(args.file)
        n == RFind(p, "/")
        dir == IF n = 0 THEN <<".">> ELSE Slice(p, 1, n - 1)
        file == Slice(p, n + 1, Len(p))
    IN  << <<"m","o","u","n","t"," ","C"," ">> \o dir, <<"C",":">>,
           IF endswith(lower(file), <<".","b","a","t">>) THEN <<"c","a","l","l"," ">> \o file ELSE file >>
        \o (IF args.exit THEN << <<"e","x","i","t">> >> ELSE <<>>)

\* C7: a finished configuration ends with the launch lines when a target
\* is given, and holds only the layers' lines and the commands when none is.
C7_LaunchLines ==
    pc = "done" =>
        IF Truthy(args.file)
        THEN autoexec = UpTo(Len(Layers)) \o Injected \o ClaimedLaunch
        ELSE autoexec = UpTo(Len(Layers)) \o Injected

\* C7 witness: a batch file in upper case, in a directory, with -exit.
C7_Witness ==
    /\ pc = "done"
    /\ args.file = <<"G","/","r","u","n",".","B","A","T">>
    /\ args.exit
    /\ resolver = "identity"
    /\ Len(autoexec) >= 4
    /\ SubSeq(autoexec, Len(autoexec) - 3, Len(autoexec))
         = << <<"m","o","u","n","t"," ","C"," ","G">>, <<"C",":">>, <<"c","a","l","l"," ","r","u","n",".","B","A","T">>, <<"e","x","i","t">> >>

\* whether the argument list names nothing to run
NothingGiven ==
    /\ args.conf = <<>>
    /\ \A n \in 1..Len(args.c) : args.c[n] \in {None, <<>>}
    /\ args.file \in {None, <<>>}

\* C8: create_dosbox_configuration returns None exactly when there is no
\* -conf value, no non-blank -c value and no program path, and the
\* constructor's assertion never fails.
C8_UsageError ==
    /\ pc # "start" => (pc = "returned_none" <=> NothingGiven)
    /\ err # "AssertionError"

\* C8 witness: only a blank -c value is given, and None is returned.
C8_Witness ==
    /\ pc = "returned_none"
    /\ args.c = << <<>> >>

\* C9: set on an absent section raises NoSectionError and changes nothing;
\* on a present section it changes nothing but that option of that section.
C9_SetContract ==
    [][ (last_set = NoCall /\ last_set' # NoCall) =>
          LET s == last_set'[1]
              o == last_set'[2]
          IN  /\ autoexec' = autoexec
              /\ IF ~has_section(sections, s)
                 THEN err' = "NoSectionError" /\ sections' = sections
                 ELSE /\ DOMAIN sections' = DOMAIN sections
                      /\ \A x \in DOMAIN sections :
                           /\ x # s => sections'[x] = sections[x]
                           /\ \A k \in DOMAIN sections[x].opts :
                                k # optionxform(sections[x].xform, o) =>
                                  /\ k \in DOMAIN sections'[x].opts
                                  /\ sections'[x].opts[k] = sections[x].opts[k]
      ]_vars

\* the autoexec lines as the claim words them: the raw lines after the first
\* [autoexec] header, up to the next section header or the end of the file
RECURSIVE UntilHeader(_)
UntilHeader(lines) ==
    IF lines = <<>> \/ IsHeader(strip(Head(lines))) THEN <<>>
    ELSE <<Head(lines)>> \o UntilHeader(Tail(lines))

RECURSIVE ClaimedAutoexec(_)
ClaimedAutoexec(lines) ==
    IF lines = <<>> THEN <<>>
    ELSE IF startswith(strip(Head(lines)), <<"[","a","u","t","o","e","x","e","c","]">>)
    THEN UntilHeader(Tail(lines))
    ELSE ClaimedAutoexec(Tail(lines))

\* C4: after read, autoexec_lines is the raw lines of the autoexec block,
\* verbatim, and nothing of a section that follows it.
C4_AutoexecBlock ==
    pc = "read" => autoexec_lines = ClaimedAutoexec(txt)

IsMountLine(line) == mount_cmd_1(line).ok \/ mount_cmd_2(line).ok

\* C5: the rewriter writes one line per autoexec line, leaves every line
\* that is no mount, imgmount or drive change as it is, and leaves the
\* configuration's autoexec as it was built.
C5_OneLinePerLine ==
    /\ autoexec = Injected
    /\ pc = "written" =>
         /\ Len(user_autoexec) = Len(autoexec)
         /\ \A n \in 1..Len(autoexec) :
              (~IsMountLine(autoexec[n]) /\ ~change_drv(autoexec[n]).ok)
                  => user_autoexec[n] = autoexec[n]

\* C5 witness: a raw line kept between two lines that are rewritten.
C5_Witness ==
    /\ pc = "written"
    /\ autoexec = << <<"m","o","u","n","t"," ","c"," ","x">>, <<"d","i","r">> >>
    /\ user_autoexec = << <<"m","o","u","n","t"," ","C"," ","\"","x","\"">>, <<"d","i","r">> >>

\* all the text of a mount line that follows its path
TextAfterPath(line) ==
    LET q == MountHead(line).next IN
    IF mount_cmd_1(line).ok
    THEN Slice(line, Find(line, "\"", q + 1) + 1, Len(line))
    ELSE Slice(line, Find(line, " ", q), Len(line))

\* C6: a mount line is written as the keyword in lower case, the drive in
\* upper case, the resolved path in quotes, and all the text after the path.
C6_MountKeepsTrailing ==
    pc = "written" =>
        \A n \in 1..Len(autoexec) :
          IsMountLine(autoexec[n]) =>
            LET match == MountMatch(autoexec[n])
                cmd == lower(match.group1)
                path == to_posix_path(match.group3)
            IN  /\ n <= Len(user_autoexec)
                /\ user_autoexec[n] =
                     FormatMount(cmd, upper(match.group2),
                         IF cmd = <<"i","m","g","m","o","u","n","t">> THEN convert_cue_file(path) ELSE path,
                         TextAfterPath(autoexec[n]))

\* C10: with a resolver that changes no path and no cue file to repair,
\* rewriting the rewritten lines gives them again.
C10_Idempotent ==
    (pc = "written" /\ resolver = "identity" /\ ~cue_broken) =>
        to_linux_autoexec(user_autoexec) = user_autoexec

====
